---- MODULE Spec2Model ----
(***************************************************************************)
(* A model of nwup (src/nwup.js), the updater of packaged NW.js            *)
(* applications: the persisted update lifecycle (applyUpdate,              *)
(* completeUpdate, clean), the download-and-merge pipeline                 *)
(* (downloadUpdate) and the version check (checkForUpdate).                *)
(***************************************************************************)
EXTENDS Integers, Sequences, FiniteSets, TLC

(***************************************************************************)
(* Bounds of the model.                                                    *)
(***************************************************************************)
\* Number of stream chunks (one byte each) in the staged executable.
ExeLen == 2
\* Public operations the host calls in one process.
MaxCalls == 2
\* Write failures (locked install path, I/O error) the environment injects.
MaxWriteFails == 1
\* Bytes of the payload (update zip) the server sends.
PayloadLen == 2
\* The largest major, minor or patch number of a version.
MaxVer == 1
\* The most pre-release identifiers of a version.
MaxPre == 1

\* manifest.nwup.runtimesize (src/nwup.js:33): the size of the NW.js runtime
\* at the head of the packaged executable.
RuntimeSize == 1

(***************************************************************************)
(* Program constants (src/nwup.js:12-15).                                  *)
(***************************************************************************)
MODE_UPDATE == "UPDATE"
MODE_CLEAN == "CLEAN"
DATA_MODE == "mode"
DATA_EXECPATH == "execPath"

\* JavaScript's undefined and null, and the empty string.
Undefined == "undefined"
Null == "null"
Falsy(v) == v \in {Undefined, Null, ""}

\* The paths of the model: the installed executable and the staged one,
\* path.join(path.dirname(process.execPath), 'update.exe').
InstallPath == "app.exe"
UpdatePath == "update.exe"
ExePaths == {InstallPath, UpdatePath}
NoProc == "noproc"
\* A missing file.
Absent == <<-1>>

\* The bytes of the installed (old) executable and of the staged (new) one.
\* The old one is one byte longer, so that a missing truncation shows.
OldExe == [i \in 1..(ExeLen + 1) |-> 10 + i]
NewExe == [i \in 1..ExeLen |-> 20 + i]
\* The bytes of the update zip on the server.
Payload == [i \in 1..PayloadLen |-> 30 + i]

VARIABLES
  localStorage,   \* localStorage.nwup: NoBlob or a JSON string
  files,          \* the content of each executable path, or Absent
  tmpDir,         \* whether <baseDir>/tmp exists
  running,        \* process.execPath of the live process, or NoProc
  child,          \* the spawned replacement that has not started yet
  copies,         \* the read->write pipes completeUpdate has open
  timers,         \* pending setTimeout retries of completeUpdate
  calls,          \* public operations the host called in this process
  wfails,         \* write failures injected so far
  cleanPromise,   \* the promise of the clean() call in flight, or "none"
  ev,             \* the last step taken: [op, arg, res]
  \* downloadUpdate
  isDevMode,      \* this.isDevMode
  dlPc,           \* where the downloadUpdate call stands
  dlPromise,      \* deferred.promise: [state, value]
  notes,          \* the progress notifications delivered, in order
  totalSize,      \* the closure variable totalSize
  receivedSize,   \* the closure variable receivedSize
  net,            \* the response: [status, hasLen, body (bytes to come)]
  chunks,         \* the lengths of the 'data' chunks received, in order
  tmpFiles,       \* tmp/<timestamp>/exportednw and update.zip
  zipW,           \* the write stream the response is piped to
  mergePos,       \* bytes of update.zip the merge has read
  fin,            \* the callbacks pending after the merge's 'finish'
  \* checkForUpdate
  currentVersion, \* this.currentVersion
  chkPc,          \* where the checkForUpdate call stands
  chkPromise,     \* deferred.promise: [state, value]
  chkReply,       \* what request's callback was called with
  chkThrown       \* the callback threw (an uncaught exception)

lcVars == <<localStorage, files, tmpDir, running, child, copies, timers,
            calls, wfails, cleanPromise, ev>>
dlVars == <<isDevMode, dlPc, dlPromise, notes, totalSize, receivedSize, net,
            chunks, tmpFiles, zipW, mergePos, fin>>
chkVars == <<currentVersion, chkPc, chkPromise, chkReply, chkThrown>>
vars == <<lcVars, dlVars, chkVars>>

Ev(op, arg, res) == [op |-> op, arg |-> arg, res |-> res]

(***************************************************************************)
(* JSON and the persisted blob: storeData, getData, removeData.            *)
(***************************************************************************)
\* localStorage.nwup when it was never set.
NoBlob == [unset |-> TRUE]
\* The object {}.
EmptyObj == [k \in {} |-> Undefined]

\* JSON.stringify of an object (a function from its keys to its values).
JSONstringify(obj) == [json |-> obj]
\* JSON.parse of a string that holds JSON.
JSONparse(str) == str.json

\* storeData(data): merge the {key, value} entries into the blob, in order.
RECURSIVE Assign(_, _)
Assign(obj, data) ==
  IF data = <<>> THEN obj
  ELSE LET e == Head(data)
           o == [k \in DOMAIN obj \cup {e.key} |->
                   IF k = e.key THEN e.value ELSE obj[k]]
       IN Assign(o, Tail(data))

storeData(ls, data) ==
  LET nwup == IF ls # NoBlob THEN JSONparse(ls) ELSE EmptyObj
  IN JSONstringify(Assign(nwup, data))

\* getData(key): null without a blob, undefined without the key.
getData(ls, key) ==
  IF ls = NoBlob THEN Null
  ELSE LET nwup == JSONparse(ls)
       IN IF key \in DOMAIN nwup THEN nwup[key] ELSE Undefined

\* removeData(key): delete one field, leave the rest.
removeData_NoWriteBack(ls, key) == ls
removeData(ls, key) ==
  IF ls = NoBlob THEN ls
  ELSE LET nwup == JSONparse(ls)
       IN JSONstringify([k \in DOMAIN nwup \ {key} |-> nwup[k]])

isUpdating == getData(localStorage, DATA_MODE) = MODE_UPDATE
needsCleaning == getData(localStorage, DATA_MODE) = MODE_CLEAN

\* The lifecycle phase the blob encodes.
PhaseOf(ls) ==
  LET m == getData(ls, DATA_MODE)
  IN IF m = MODE_UPDATE THEN "UPDATING"
     ELSE IF m = MODE_CLEAN THEN "CLEANING" ELSE "NONE"

(***************************************************************************)
(* Files and streams.                                                      *)
(***************************************************************************)
Zeros(n) == [i \in 1..n |-> 0]

\* A write of one byte at a 0-based offset through a descriptor of its own:
\* past the end of the file the gap reads as zeros; an unlinked file stays
\* unlinked.
WriteAt(content, pos, byte) ==
  IF content = Absent THEN Absent
  ELSE IF pos < Len(content) THEN [content EXCEPT ![pos + 1] = byte]
  ELSE content \o Zeros(pos - Len(content)) \o <<byte>>

\* fs.createWriteStream(path) opens with flag 'w': the file is truncated.
OpenForWrite(content) == <<>>

\* A file the platform can execute.
Executable(content) == content \in {OldExe, NewExe}

RemoveAt(seq, i) == SubSeq(seq, 1, i - 1) \o SubSeq(seq, i + 1, Len(seq))

\* The open pipes are kept in a canonical order: which call opened a pipe
\* first does not matter to what the pipes do.
PipeKey(c) ==
  (IF c.dst = InstallPath THEN 0 ELSE 1000) + (IF c.w = "open" THEN 100 ELSE 0)
    + (IF c.r = "ok" THEN 0 ELSE 10 * (ExeLen + 2)) + c.pos

RECURSIVE AddPipe(_, _)
AddPipe(seq, c) ==
  IF seq = <<>> THEN <<c>>
  ELSE IF PipeKey(c) <= PipeKey(Head(seq)) THEN <<c>> \o seq
  ELSE <<Head(seq)>> \o AddPipe(Tail(seq), c)

SetPipe(seq, i, c) == AddPipe(RemoveAt(seq, i), c)

\* Q's deferred: a promise is [state, value]; reject, resolve and notify act
\* on a pending promise only.
Pending == [state |-> "pending", value |-> ""]
NoPromise == [state |-> "none", value |-> ""]
QReject(p, reason) ==
  IF p.state = "pending" THEN [state |-> "rejected", value |-> reason] ELSE p
QResolve(p, value) ==
  IF p.state = "pending" THEN [state |-> "resolved", value |-> value] ELSE p
QNotify(p, log, progress) ==
  IF p.state = "pending" THEN Append(log, progress) ELSE log

(***************************************************************************)
(* respawn(execPath): spawn the replacement detached, then quit.           *)
(* The spawn succeeds ("ok"), fails with an 'error' event emitted later    *)
(* ("error_event", e.g. ENOENT) or throws in the call ("throws").          *)
(***************************************************************************)
SpawnOutcomes(path) ==
  IF path \in ExePaths /\ Executable(files[path])
  THEN {"ok", "error_event", "throws"}
  ELSE {"error_event", "throws"}

\* (A variant in which the process lives on after gui.App.quit().)
Quit_Lingers == UNCHANGED <<running, copies, timers, calls, cleanPromise>>

\* gui.App.quit(): the process ends, and with it its streams and timers.
Quit ==
  /\ running' = NoProc
  /\ copies' = <<>>
  /\ timers' = 0
  /\ calls' = 0
  /\ cleanPromise' = "none"

\* (A variant that quits without spawning the replacement.)
respawn_QuitOnly(execPath, outcome, live, ncalls) ==
  IF outcome = "throws"
  THEN /\ UNCHANGED <<running, child, timers, cleanPromise>>
       /\ copies' = live
       /\ calls' = ncalls
  ELSE /\ UNCHANGED child
       /\ Quit

respawn(execPath, outcome, live, ncalls) ==
  IF outcome = "throws"
  THEN /\ UNCHANGED <<running, child, timers, cleanPromise>>
       /\ copies' = live
       /\ calls' = ncalls
  ELSE /\ child' = IF outcome = "ok" THEN execPath ELSE child
       /\ Quit

(***************************************************************************)
(* applyUpdate(updatePath)                                                 *)
(***************************************************************************)
\* (A variant that respawns first: the record is written only if the
\* process is still there, that is when the spawn threw.)
applyUpdate_RespawnFirst(updatePath, outcome) ==
  /\ running # NoProc
  /\ calls < MaxCalls
  /\ IF Falsy(updatePath)
     THEN /\ outcome = "return"
          /\ calls' = calls + 1
          /\ UNCHANGED <<localStorage, running, child, copies, timers,
                         cleanPromise>>
     ELSE /\ outcome \in SpawnOutcomes(updatePath)
          /\ localStorage' = IF outcome = "throws"
                THEN storeData(localStorage,
                       << [key |-> DATA_MODE, value |-> MODE_UPDATE],
                          [key |-> DATA_EXECPATH, value |-> running] >>)
                ELSE localStorage
          /\ respawn(updatePath, outcome, copies, calls + 1)
  /\ ev' = Ev("applyUpdate", updatePath, outcome)
  /\ UNCHANGED <<files, tmpDir, wfails>>
  /\ UNCHANGED <<dlVars, chkVars>>

\* (A variant that persists the record only once the spawn has succeeded.)
applyUpdate_StoreAfterSpawn(updatePath, outcome) ==
  /\ running # NoProc
  /\ calls < MaxCalls
  /\ IF Falsy(updatePath)
     THEN /\ outcome = "return"
          /\ calls' = calls + 1
          /\ UNCHANGED <<localStorage, running, child, copies, timers,
                         cleanPromise>>
     ELSE /\ outcome \in SpawnOutcomes(updatePath)
          /\ localStorage' = IF outcome = "ok"
                THEN storeData(localStorage,
                       << [key |-> DATA_MODE, value |-> MODE_UPDATE],
                          [key |-> DATA_EXECPATH, value |-> running] >>)
                ELSE localStorage
          /\ respawn(updatePath, outcome, copies, calls + 1)
  /\ ev' = Ev("applyUpdate", updatePath, outcome)
  /\ UNCHANGED <<files, tmpDir, wfails>>
  /\ UNCHANGED <<dlVars, chkVars>>

applyUpdate(updatePath, outcome) ==
  /\ running # NoProc
  /\ calls < MaxCalls
  /\ IF Falsy(updatePath)
     THEN /\ outcome = "return"
          /\ calls' = calls + 1
          /\ UNCHANGED <<localStorage, running, child, copies, timers,
                         cleanPromise>>
     ELSE /\ outcome \in SpawnOutcomes(updatePath)
          /\ localStorage' = storeData(localStorage,
                 << [key |-> DATA_MODE, value |-> MODE_UPDATE],
                    [key |-> DATA_EXECPATH, value |-> running] >>)
          /\ respawn(updatePath, outcome, copies, calls + 1)
  /\ ev' = Ev("applyUpdate", updatePath, outcome)
  /\ UNCHANGED <<files, tmpDir, wfails>>
  /\ UNCHANGED <<dlVars, chkVars>>

(***************************************************************************)
(* completeUpdate(), called by the host or by the retry timer.             *)
(***************************************************************************)
\* The test oldExecPath == newExecPath.
SelfTarget_Never(oldExecPath, newExecPath) == FALSE
SelfTarget(oldExecPath, newExecPath) == oldExecPath = newExecPath

completeUpdate(by) ==
  LET oldExecPath == getData(localStorage, DATA_EXECPATH)
      newExecPath == running
  IN /\ running # NoProc
     /\ IF Falsy(oldExecPath)
        THEN /\ UNCHANGED <<localStorage, copies>>
             /\ ev' = Ev("completeUpdate", by, "return")
        ELSE IF SelfTarget(oldExecPath, newExecPath)
        THEN /\ localStorage' = removeData(removeData(localStorage, DATA_MODE),
                                           DATA_EXECPATH)
             /\ UNCHANGED copies
             /\ ev' = Ev("completeUpdate", by, "selfTarget")
        ELSE /\ copies' = AddPipe(copies, [dst |-> oldExecPath, w |-> "opening",
                                           r |-> "ok", pos |-> 0])
             /\ UNCHANGED localStorage
             /\ ev' = Ev("completeUpdate", by, "copy")
     /\ UNCHANGED <<files, tmpDir, running, child, wfails, cleanPromise>>
     /\ UNCHANGED <<dlVars, chkVars>>

HostCompleteUpdate ==
  /\ calls < MaxCalls
  /\ calls' = calls + 1
  /\ UNCHANGED timers
  /\ completeUpdate("host")

\* setTimeout(function() {self.completeUpdate();}, 1000) fires.
TimerFire ==
  /\ timers > 0
  /\ timers' = timers - 1
  /\ UNCHANGED calls
  /\ completeUpdate("timer")

(***************************************************************************)
(* The pipe readStream.pipe(writeStream) of one completeUpdate call.       *)
(***************************************************************************)
\* The write stream's open completes.
OpenWrite(i) ==
  LET c == copies[i]
  IN /\ c.w = "opening"
     /\ files' = [files EXCEPT ![c.dst] = OpenForWrite(files[c.dst])]
     /\ copies' = IF c.r = "failed" THEN RemoveAt(copies, i)
                  ELSE SetPipe(copies, i, [c EXCEPT !.w = "open"])
     /\ ev' = Ev("openWrite", c.dst, "ok")
     /\ UNCHANGED <<localStorage, tmpDir, running, child, timers, calls,
                    wfails, cleanPromise>>
     /\ UNCHANGED <<dlVars, chkVars>>

\* One chunk read from the running executable is written to the target.
WriteChunk(i) ==
  LET c == copies[i]
      src == files[running]
  IN /\ c.w = "open" /\ c.r = "ok"
     /\ src # Absent /\ c.pos < Len(src)
     /\ files' = [files EXCEPT ![c.dst] = WriteAt(files[c.dst], c.pos,
                                                   src[c.pos + 1])]
     /\ copies' = SetPipe(copies, i, [c EXCEPT !.pos = c.pos + 1])
     /\ ev' = Ev("writeChunk", c.dst, "ok")
     /\ UNCHANGED <<localStorage, tmpDir, running, child, timers, calls,
                    wfails, cleanPromise>>
     /\ UNCHANGED <<dlVars, chkVars>>

\* (A variant whose 'error' handler sets no timer.)
WriteError_NoRetry(i) ==
  LET c == copies[i]
      src == files[running]
  IN /\ wfails < MaxWriteFails
     /\ \/ c.w = "opening"
        \/ c.w = "open" /\ c.r = "ok" /\ src # Absent /\ c.pos < Len(src)
     /\ copies' = RemoveAt(copies, i)
     /\ wfails' = wfails + 1
     /\ ev' = Ev("writeError", c.dst, "retry")
     /\ UNCHANGED <<localStorage, files, tmpDir, running, child, calls,
                    cleanPromise, timers>>
     /\ UNCHANGED <<dlVars, chkVars>>

\* writeStream 'error': the open or a write failed; retry in a second.
WriteError(i) ==
  LET c == copies[i]
      src == files[running]
  IN /\ wfails < MaxWriteFails
     /\ \/ c.w = "opening"
        \/ c.w = "open" /\ c.r = "ok" /\ src # Absent /\ c.pos < Len(src)
     /\ copies' = RemoveAt(copies, i)
     /\ timers' = timers + 1
     /\ wfails' = wfails + 1
     /\ ev' = Ev("writeError", c.dst, "retry")
     /\ UNCHANGED <<localStorage, files, tmpDir, running, child, calls,
                    cleanPromise>>
     /\ UNCHANGED <<dlVars, chkVars>>

\* readStream 'error': the handler throws; nothing is retried.
ReadError(i) ==
  LET c == copies[i]
      src == files[running]
  IN /\ c.r = "ok"
     /\ src = Absent \/ c.pos < Len(src)
     /\ copies' = IF c.w = "open" THEN RemoveAt(copies, i)
                  ELSE SetPipe(copies, i, [c EXCEPT !.r = "failed"])
     /\ ev' = Ev("readError", c.dst, "throw")
     /\ UNCHANGED <<localStorage, files, tmpDir, running, child, timers,
                    calls, wfails, cleanPromise>>
     /\ UNCHANGED <<dlVars, chkVars>>

\* (A variant whose 'finish' handler releases the update instead of
\* flagging the clean-up.)
Finish_ReleasesUpdate(i, outcome) ==
  LET c == copies[i]
      src == files[running]
  IN /\ c.w = "open" /\ c.r = "ok"
     /\ src # Absent /\ c.pos = Len(src)
     /\ outcome \in SpawnOutcomes(c.dst)
     /\ localStorage' = removeData(removeData(localStorage, DATA_EXECPATH),
                                   DATA_MODE)
     /\ respawn(c.dst, outcome, RemoveAt(copies, i), calls)
     /\ ev' = Ev("copyFinish", c.dst, outcome)
     /\ UNCHANGED <<files, tmpDir, wfails>>
     /\ UNCHANGED <<dlVars, chkVars>>

\* writeStream 'finish': every chunk was written.
Finish(i, outcome) ==
  LET c == copies[i]
      src == files[running]
  IN /\ c.w = "open" /\ c.r = "ok"
     /\ src # Absent /\ c.pos = Len(src)
     /\ outcome \in SpawnOutcomes(c.dst)
     /\ localStorage' = storeData(removeData(localStorage, DATA_EXECPATH),
                                  << [key |-> DATA_MODE, value |-> MODE_CLEAN] >>)
     /\ respawn(c.dst, outcome, RemoveAt(copies, i), calls)
     /\ ev' = Ev("copyFinish", c.dst, outcome)
     /\ UNCHANGED <<files, tmpDir, wfails>>
     /\ UNCHANGED <<dlVars, chkVars>>

(***************************************************************************)
(* clean(): rimraf of {tmp, update.exe}, then its callback.                *)
(***************************************************************************)
clean ==
  /\ running # NoProc
  /\ calls < MaxCalls
  /\ cleanPromise = "none"
  /\ calls' = calls + 1
  /\ cleanPromise' = "pending"
  /\ ev' = Ev("clean", "", "pending")
  /\ UNCHANGED <<localStorage, files, tmpDir, running, child, copies, timers,
                 wfails>>
  /\ UNCHANGED <<dlVars, chkVars>>

\* rimraf deleted both ("ok"), nothing ("err") or tmp alone ("errPartial").
\* The file of the running executable cannot be deleted.
RimrafOutcomes ==
  IF running = UpdatePath /\ files[UpdatePath] # Absent
  THEN {"err", "errPartial"}
  ELSE {"ok", "err", "errPartial"}

\* (A variant that returns after deferred.reject(err).)
cleanCallback_ReturnsOnError(outcome) ==
  /\ cleanPromise = "pending"
  /\ outcome \in RimrafOutcomes
  /\ files' = IF outcome = "ok" THEN [files EXCEPT ![UpdatePath] = Absent]
              ELSE files
  /\ tmpDir' = IF outcome = "err" THEN tmpDir ELSE FALSE
  /\ localStorage' = IF outcome = "ok" THEN removeData(localStorage, DATA_MODE)
                     ELSE localStorage
  /\ cleanPromise' = "none"
  /\ ev' = Ev("cleanCallback", outcome,
              IF outcome = "ok" THEN QResolve(Pending, "").state
              ELSE QReject(Pending, "err").state)
  /\ UNCHANGED <<running, child, copies, timers, calls, wfails>>
  /\ UNCHANGED <<dlVars, chkVars>>

cleanCallback(outcome) ==
  /\ cleanPromise = "pending"
  /\ outcome \in RimrafOutcomes
  /\ files' = IF outcome = "ok" THEN [files EXCEPT ![UpdatePath] = Absent]
              ELSE files
  /\ tmpDir' = IF outcome = "err" THEN tmpDir ELSE FALSE
  /\ localStorage' = removeData(localStorage, DATA_MODE)
  /\ cleanPromise' = "none"
  /\ ev' = Ev("cleanCallback", outcome,
              QResolve(IF outcome # "ok" THEN QReject(Pending, "err")
                       ELSE Pending, "").state)
  /\ UNCHANGED <<running, child, copies, timers, calls, wfails>>
  /\ UNCHANGED <<dlVars, chkVars>>

(***************************************************************************)
(* Process starts.                                                         *)
(***************************************************************************)
\* The spawned replacement starts.
Startup ==
  /\ running = NoProc /\ child # NoProc
  /\ running' = child
  /\ child' = NoProc
  /\ ev' = Ev("start", child, ev.op)
  /\ UNCHANGED <<localStorage, files, tmpDir, copies, timers, calls, wfails,
                 cleanPromise>>
  /\ UNCHANGED <<dlVars, chkVars>>

\* Nothing runs and nothing was spawned: the user starts the installed app.
UserLaunch ==
  /\ running = NoProc /\ child = NoProc
  /\ Executable(files[InstallPath])
  /\ running' = InstallPath
  /\ ev' = Ev("start", InstallPath, ev.op)
  /\ UNCHANGED <<localStorage, files, tmpDir, child, copies, timers, calls,
                 wfails, cleanPromise>>
  /\ UNCHANGED <<dlVars, chkVars>>


(***************************************************************************)
(* downloadUpdate(updateLocation)                                          *)
(***************************************************************************)
\* JavaScript values of the closure variables totalSize and receivedSize.
JsUndefined == [t |-> "undefined"]
JsNaN == [t |-> "NaN"]
JsNumber(n) == [t |-> "number", n |-> n]
JsString(digits) == [t |-> "string", s |-> digits]

\* The decimal text of a number (a header value), as its digits.
RECURSIVE Decimal(_)
Decimal(n) == IF n < 10 THEN <<n>> ELSE Decimal(n \div 10) \o <<n % 10>>

\* Number(v): the number a JavaScript value converts to, or JsNaN.
RECURSIVE DigitsValue(_)
DigitsValue(d) ==
  IF d = <<>> THEN 0 ELSE 10 * DigitsValue(SubSeq(d, 1, Len(d) - 1)) + d[Len(d)]

ToNumber(v) ==
  IF v.t = "number" THEN v
  ELSE IF v.t = "string" THEN JsNumber(DigitsValue(v.s))
  ELSE JsNaN

\* receivedSize += data.length
AddLength_CountsChunks(v, len) == IF v.t = "number" THEN JsNumber(v.n + 1) ELSE JsNaN
AddLength(v, len) == IF v.t = "number" THEN JsNumber(v.n + len) ELSE JsNaN

\* fs.createReadStream(path, {start, end}): the bytes at the 0-based offsets
\* start..end, both inclusive, as far as the file goes.
ReadRange(content, start, end) ==
  SubSeq(content, start + 1, IF end + 1 < Len(content) THEN end + 1
                             ELSE Len(content))

\* response.headers['content-length']
ContentLength(response) ==
  IF response.hasLen THEN JsString(Decimal(Len(response.body)))
  ELSE JsUndefined

NoResponse == [status |-> 0, hasLen |-> FALSE, body |-> <<>>]
NoStream == [st |-> "none", buf |-> <<>>]
NoTmp == [runtime |-> Absent, zip |-> Absent]

DlFail(reason) ==
  /\ dlPromise' = QReject(dlPromise, reason)
  /\ dlPc' = "failed"

\* The call: Q.reject in development mode; else the read stream on the
\* running executable is created and mkdirp(tmpPath) is issued.
\* (A variant that does not look at this.isDevMode.)
downloadUpdate_IgnoresDevMode ==
  /\ running # NoProc
  /\ dlPc = "idle"
  /\ dlPromise' = Pending
  /\ dlPc' = "mkdirp"
  /\ UNCHANGED <<isDevMode, notes, totalSize, receivedSize, net, chunks,
                 tmpFiles, zipW, mergePos, fin>>
  /\ UNCHANGED lcVars
  /\ UNCHANGED chkVars

downloadUpdate ==
  /\ running # NoProc
  /\ dlPc = "idle"
  /\ IF isDevMode
     THEN /\ dlPromise' = QReject(Pending, "Update aborted in development environment")
          /\ dlPc' = "aborted"
     ELSE /\ dlPromise' = Pending
          /\ dlPc' = "mkdirp"
  /\ UNCHANGED <<isDevMode, notes, totalSize, receivedSize, net, chunks,
                 tmpFiles, zipW, mergePos, fin>>
  /\ UNCHANGED lcVars
  /\ UNCHANGED chkVars

\* mkdirp's callback. On an error the promise is rejected and the handler
\* goes on: the write stream into the missing directory fails in its turn.
mkdirpCallback(ok) ==
  /\ dlPc = "mkdirp"
  /\ IF ok
     THEN /\ tmpDir' = TRUE
          /\ dlPc' = "extract"
          /\ UNCHANGED dlPromise
     ELSE /\ DlFail("mkdirp")
          /\ UNCHANGED tmpDir
  /\ UNCHANGED <<isDevMode, notes, totalSize, receivedSize, net, chunks,
                 tmpFiles, zipW, mergePos, fin>>
  /\ UNCHANGED <<localStorage, files, running, child, copies, timers, calls,
                 wfails, cleanPromise, ev>>
  /\ UNCHANGED chkVars

\* execStream.pipe(runtimeStream) ran to runtimeStream's 'finish': the
\* runtime is extracted and the request for the update is made.
extractFinish ==
  /\ dlPc = "extract"
  /\ tmpFiles' = [tmpFiles EXCEPT
                    !.runtime = ReadRange(files[running], 0, RuntimeSize)]
  /\ dlPc' = "request"
  /\ UNCHANGED <<isDevMode, dlPromise, notes, totalSize, receivedSize, net,
                 chunks, zipW, mergePos, fin>>
  /\ UNCHANGED lcVars
  /\ UNCHANGED chkVars

\* execStream or runtimeStream 'error'.
extractError ==
  /\ dlPc = "extract"
  /\ DlFail("extract")
  /\ UNCHANGED <<isDevMode, notes, totalSize, receivedSize, net, chunks,
                 tmpFiles, zipW, mergePos, fin>>
  /\ UNCHANGED lcVars
  /\ UNCHANGED chkVars

\* updateRequest 'error': the request fails before or during the response.
requestError ==
  /\ dlPc \in {"request", "download"}
  /\ DlFail("request")
  /\ UNCHANGED <<isDevMode, notes, totalSize, receivedSize, net, chunks,
                 tmpFiles, zipW, mergePos, fin>>
  /\ UNCHANGED lcVars
  /\ UNCHANGED chkVars

\* updateRequest 'response'. The body follows in 'data' events whatever the
\* status is.
onResponse(response) ==
  /\ dlPc = "request"
  /\ net' = response
  /\ dlPc' = "download"
  /\ IF response.status # 200
     THEN /\ dlPromise' = QReject(dlPromise, "update file not found. server replied with code:")
          /\ UNCHANGED <<totalSize, receivedSize, notes, zipW>>
     ELSE /\ totalSize' = ContentLength(response)
          /\ receivedSize' = JsNumber(0)
          /\ notes' = QNotify(dlPromise, notes,
                              [kind |-> "totalSize",
                               value |-> ContentLength(response)])
          /\ zipW' = [st |-> "opening", buf |-> <<>>]
          /\ UNCHANGED dlPromise
  /\ UNCHANGED <<isDevMode, chunks, tmpFiles, mergePos, fin>>
  /\ UNCHANGED lcVars
  /\ UNCHANGED chkVars

\* updateRequest 'data' with a chunk of len bytes: the progress handler
\* runs, then the pipe hands the chunk to the write stream of update.zip.
onData(len) ==
  /\ dlPc = "download"
  /\ len \in 1..Len(net.body)
  /\ receivedSize' = AddLength(receivedSize, len)
  /\ notes' = QNotify(dlPromise, notes,
                      [kind |-> "receivedSize",
                       value |-> AddLength(receivedSize, len)])
  /\ chunks' = Append(chunks, len)
  /\ zipW' = IF zipW.st = "none" THEN zipW
             ELSE [zipW EXCEPT !.buf = @ \o SubSeq(net.body, 1, len)]
  /\ net' = [net EXCEPT !.body = SubSeq(@, len + 1, Len(@))]
  /\ UNCHANGED <<isDevMode, dlPc, dlPromise, totalSize, tmpFiles, mergePos,
                 fin>>
  /\ UNCHANGED lcVars
  /\ UNCHANGED chkVars

\* The open of update.zip's write stream completes: the file exists.
zipOpen ==
  /\ zipW.st = "opening"
  /\ zipW' = [zipW EXCEPT !.st = "open"]
  /\ tmpFiles' = [tmpFiles EXCEPT !.zip = OpenForWrite(@)]
  /\ UNCHANGED <<isDevMode, dlPc, dlPromise, notes, totalSize, receivedSize,
                 net, chunks, mergePos, fin>>
  /\ UNCHANGED lcVars
  /\ UNCHANGED chkVars

\* The write stream writes its buffered bytes to update.zip.
zipFlush ==
  /\ zipW.st = "open" /\ zipW.buf # <<>>
  /\ tmpFiles' = [tmpFiles EXCEPT
                    !.zip = IF @ = Absent THEN Absent ELSE @ \o zipW.buf]
  /\ zipW' = [zipW EXCEPT !.buf = <<>>]
  /\ UNCHANGED <<isDevMode, dlPc, dlPromise, notes, totalSize, receivedSize,
                 net, chunks, mergePos, fin>>
  /\ UNCHANGED lcVars
  /\ UNCHANGED chkVars

\* updateRequest 'end': the handler registered first runs first and opens
\* the merge (read update.zip, append to the extracted runtime).
onEnd ==
  /\ dlPc = "download"
  /\ net.body = <<>>
  /\ dlPc' = "merge"
  /\ mergePos' = 0
  /\ UNCHANGED <<isDevMode, dlPromise, notes, totalSize, receivedSize, net,
                 chunks, tmpFiles, zipW, fin>>
  /\ UNCHANGED lcVars
  /\ UNCHANGED chkVars

\* zipStream reads what update.zip holds past the bytes it has read and the
\* append stream writes it; at the end of the file the pipe ends the append
\* stream, whose 'finish' issues the unlink and the rename. A missing
\* update.zip is zipStream's 'error'.
mergeRead ==
  /\ dlPc = "merge"
  /\ IF tmpFiles.zip = Absent
     THEN /\ DlFail("zipStream")
          /\ UNCHANGED <<tmpFiles, mergePos, fin>>
     ELSE IF mergePos < Len(tmpFiles.zip)
     THEN /\ tmpFiles' = [tmpFiles EXCEPT
               !.runtime = @ \o SubSeq(tmpFiles.zip, mergePos + 1,
                                       Len(tmpFiles.zip))]
          /\ mergePos' = Len(tmpFiles.zip)
          /\ UNCHANGED <<dlPc, dlPromise, fin>>
     ELSE /\ dlPc' = "finish"
          /\ fin' = {"unlink", "rename"}
          /\ UNCHANGED <<dlPromise, tmpFiles, mergePos>>
  /\ UNCHANGED <<isDevMode, notes, totalSize, receivedSize, net, chunks, zipW>>
  /\ UNCHANGED lcVars
  /\ UNCHANGED chkVars

\* fs.unlink(updatePath)'s callback.
unlinkCallback(ok) ==
  /\ dlPc = "finish" /\ "unlink" \in fin
  /\ fin' = fin \ {"unlink"}
  /\ tmpFiles' = IF ok THEN [tmpFiles EXCEPT !.zip = Absent] ELSE tmpFiles
  /\ dlPromise' = IF ok THEN dlPromise ELSE QReject(dlPromise, "unlink")
  /\ UNCHANGED <<isDevMode, dlPc, notes, totalSize, receivedSize, net, chunks,
                 zipW, mergePos>>
  /\ UNCHANGED lcVars
  /\ UNCHANGED chkVars

\* fs.rename(runtimePath, newExecPath)'s callback: reject on an error, and
\* resolve in any case.
renameCallback(ok) ==
  /\ dlPc = "finish" /\ "rename" \in fin
  /\ fin' = fin \ {"rename"}
  /\ files' = IF ok THEN [files EXCEPT ![UpdatePath] = tmpFiles.runtime]
              ELSE files
  /\ tmpFiles' = IF ok THEN [tmpFiles EXCEPT !.runtime = Absent] ELSE tmpFiles
  /\ dlPromise' = QResolve(IF ok THEN dlPromise
                           ELSE QReject(dlPromise, "rename"), UpdatePath)
  /\ UNCHANGED <<isDevMode, dlPc, notes, totalSize, receivedSize, net, chunks,
                 zipW, mergePos>>
  /\ UNCHANGED <<localStorage, tmpDir, running, child, copies, timers, calls,
                 wfails, cleanPromise, ev>>
  /\ UNCHANGED chkVars

\* The responses of the server: the update zip with status 200, with or
\* without a Content-Length header, or an error page.
Responses ==
  { [status |-> 200, hasLen |-> h, body |-> Payload] : h \in BOOLEAN }
    \cup { [status |-> 404, hasLen |-> TRUE, body |-> <<40>>] }

\* No checkForUpdate call was made.
NoReply == [error |-> FALSE, status |-> 0, body |-> [text |-> ""]]
ChkIdle ==
  /\ chkPc = "idle"
  /\ chkPromise = NoPromise
  /\ chkReply = NoReply
  /\ chkThrown = FALSE

\* No downloadUpdate call was made.
DlIdle ==
  /\ dlPc = "idle"
  /\ dlPromise = NoPromise
  /\ notes = <<>>
  /\ totalSize = JsUndefined
  /\ receivedSize = JsUndefined
  /\ net = NoResponse
  /\ chunks = <<>>
  /\ tmpFiles = NoTmp
  /\ zipW = NoStream
  /\ mergePos = 0
  /\ fin = {}

\* The packaged application runs from the install path; nothing is staged.
DlInit ==
  /\ localStorage = NoBlob
  /\ files = [p \in ExePaths |-> IF p = InstallPath THEN OldExe ELSE Absent]
  /\ tmpDir = FALSE
  /\ running = InstallPath
  /\ child = NoProc
  /\ copies = <<>>
  /\ timers = 0
  /\ calls = 0
  /\ wfails = 0
  /\ cleanPromise = "none"
  /\ ev = Ev("init", "", "")
  /\ isDevMode \in BOOLEAN
  /\ DlIdle
  /\ currentVersion = [major |-> 1, minor |-> 0, patch |-> 0, pre |-> <<>>]
  /\ ChkIdle

DlNext ==
  \/ downloadUpdate
  \/ \E ok \in BOOLEAN : mkdirpCallback(ok)
  \/ extractFinish
  \/ extractError
  \/ requestError
  \/ \E r \in Responses : onResponse(r)
  \/ \E len \in 1..PayloadLen : onData(len)
  \/ zipOpen
  \/ zipFlush
  \/ onEnd
  \/ mergeRead
  \/ \E ok \in BOOLEAN : unlinkCallback(ok)
  \/ \E ok \in BOOLEAN : renameCallback(ok)

DlSpec == DlInit /\ [][DlNext]_vars

(***************************************************************************)
(* checkForUpdate()                                                        *)
(***************************************************************************)
\* A version is [major, minor, patch, pre]; pre is the sequence of its
\* pre-release identifiers. An identifier is numeric ([num |-> TRUE], v its
\* value) or alphanumeric (v its rank in ASCII order: "alpha" 0, "beta" 1).
Identifiers == [num : BOOLEAN, v : 0..1]

RECURSIVE SeqsUpTo(_, _)
SeqsUpTo(S, n) ==
  IF n = 0 THEN {<<>>}
  ELSE LET shorter == SeqsUpTo(S, n - 1)
       IN shorter \cup {Append(q, x) : q \in shorter, x \in S}

Versions == [major : 0..MaxVer, minor : 0..MaxVer, patch : 0..MaxVer,
             pre : SeqsUpTo(Identifiers, MaxPre)]
\* A version string semver cannot parse.
InvalidVersion == [invalid |-> "latest"]
ValidVersion(v) == "major" \in DOMAIN v

\* semver's compareIdentifiers(a, b): numbers by value, a number before a
\* non-number, non-numbers as strings.
compareIdentifiers(a, b) ==
  IF a.num /\ ~b.num THEN -1
  ELSE IF b.num /\ ~a.num THEN 1
  ELSE IF a.v < b.v THEN -1
  ELSE IF a.v > b.v THEN 1
  ELSE 0

NumId(n) == [num |-> TRUE, v |-> n]

\* SemVer.compareMain
compareMain(a, b) ==
  LET major == compareIdentifiers(NumId(a.major), NumId(b.major))
      minor == compareIdentifiers(NumId(a.minor), NumId(b.minor))
  IN IF major # 0 THEN major
     ELSE IF minor # 0 THEN minor
     ELSE compareIdentifiers(NumId(a.patch), NumId(b.patch))

\* SemVer.comparePre: the loop over the identifiers, from index i.
RECURSIVE comparePreFrom(_, _, _)
comparePreFrom(a, b, i) ==
  IF i > Len(a) /\ i > Len(b) THEN 0
  ELSE IF i > Len(b) THEN 1
  ELSE IF i > Len(a) THEN -1
  ELSE IF a[i] = b[i] THEN comparePreFrom(a, b, i + 1)
  ELSE compareIdentifiers(a[i], b[i])

comparePre(a, b) ==
  IF a.pre # <<>> /\ b.pre = <<>> THEN -1
  ELSE IF a.pre = <<>> /\ b.pre # <<>> THEN 1
  ELSE IF a.pre = <<>> /\ b.pre = <<>> THEN 0
  ELSE comparePreFrom(a.pre, b.pre, 1)

\* semver.lt(a, b): compare(a, b) < 0, compare being compareMain || comparePre.
semverLt_MainOnly(a, b) == compareMain(a, b) < 0
semverLt(a, b) ==
  (IF compareMain(a, b) # 0 THEN compareMain(a, b) ELSE comparePre(a, b)) < 0

\* A body that JSON.parse accepts.
Parseable(str) == "json" \in DOMAIN str

checkForUpdate ==
  /\ running # NoProc
  /\ chkPc = "idle"
  /\ chkPc' = "request"
  /\ chkPromise' = Pending
  /\ UNCHANGED <<currentVersion, chkReply, chkThrown>>
  /\ UNCHANGED <<lcVars, dlVars>>

\* request's callback function (error, response, body). With an error the
\* response is undefined and reading its statusCode throws; JSON.parse and
\* semver.lt throw on what they cannot parse.
requestCallback(reply) ==
  LET p1 == IF reply.error THEN QReject(chkPromise, "error") ELSE chkPromise
      p2 == IF reply.status # 200
            THEN QReject(p1, "Server responded with status code: ") ELSE p1
      remoteManifest == JSONparse(reply.body)
      remoteVersion == IF "version" \in DOMAIN remoteManifest
                       THEN remoteManifest.version ELSE InvalidVersion
      updateAvailable == IF semverLt(currentVersion, remoteVersion)
                         THEN TRUE ELSE FALSE
  IN /\ chkPc = "request"
     /\ chkPc' = "done"
     /\ chkReply' = reply
     /\ IF reply.error
        THEN chkPromise' = p1 /\ chkThrown' = TRUE
        ELSE IF reply.status # 200
        THEN chkPromise' = p2 /\ chkThrown' = FALSE
        ELSE IF ~Parseable(reply.body)
        THEN chkPromise' = p2 /\ chkThrown' = TRUE
        ELSE IF ~ValidVersion(currentVersion) \/ ~ValidVersion(remoteVersion)
        THEN chkPromise' = p2 /\ chkThrown' = TRUE
        ELSE /\ chkPromise' = QResolve(p2,
                    [updateAvailable |-> updateAvailable,
                     updateInformation |-> remoteManifest])
             /\ chkThrown' = FALSE
     /\ UNCHANGED currentVersion
     /\ UNCHANGED <<lcVars, dlVars>>

\* The manifests a server may hold: a version, the update's URL and fields
\* nwup passes through; the version may be unparseable or missing.
Manifests ==
  { [version |-> v, update |-> "http://x/u.zip", changelog |-> "notes"] :
      v \in Versions \cup {InvalidVersion} }
    \cup { [update |-> "http://x/u.zip"] }

Replies ==
  { [error |-> FALSE, status |-> 200, body |-> JSONstringify(m)] :
      m \in Manifests }
    \cup { [error |-> FALSE, status |-> 200, body |-> [text |-> "<html>"]],
           [error |-> FALSE, status |-> 404, body |-> [text |-> "<html>"]],
           [error |-> TRUE, status |-> 0, body |-> [text |-> ""]] }

ChkInit ==
  /\ localStorage = NoBlob
  /\ files = [p \in ExePaths |-> IF p = InstallPath THEN OldExe ELSE Absent]
  /\ tmpDir = FALSE
  /\ running = InstallPath
  /\ child = NoProc
  /\ copies = <<>>
  /\ timers = 0
  /\ calls = 0
  /\ wfails = 0
  /\ cleanPromise = "none"
  /\ ev = Ev("init", "", "")
  /\ isDevMode = FALSE
  /\ DlIdle
  /\ currentVersion \in Versions
  /\ ChkIdle

ChkNext ==
  \/ checkForUpdate
  \/ \E reply \in Replies : requestCallback(reply)

ChkSpec == ChkInit /\ [][ChkNext]_vars

(***************************************************************************)
(* The lifecycle specification: the host may call any operation at any     *)
(* time. An update is staged; no download is in progress.                  *)
(***************************************************************************)
Init ==
  /\ localStorage = NoBlob
  /\ files = [p \in ExePaths |-> IF p = InstallPath THEN OldExe ELSE NewExe]
  /\ tmpDir = TRUE
  /\ running = InstallPath
  /\ child = NoProc
  /\ copies = <<>>
  /\ timers = 0
  /\ calls = 0
  /\ wfails = 0
  /\ cleanPromise = "none"
  /\ ev = Ev("init", "", "")
  /\ isDevMode = FALSE
  /\ DlIdle
  /\ currentVersion = [major |-> 1, minor |-> 0, patch |-> 0, pre |-> <<>>]
  /\ ChkIdle

Next ==
  \/ \E p \in {"", UpdatePath}, o \in {"return", "ok", "error_event", "throws"} :
        applyUpdate(p, o)
  \/ HostCompleteUpdate
  \/ TimerFire
  \/ \E i \in DOMAIN copies : OpenWrite(i)
  \/ \E i \in DOMAIN copies : WriteChunk(i)
  \/ \E i \in DOMAIN copies : WriteError(i)
  \/ \E i \in DOMAIN copies : ReadError(i)
  \/ \E i \in DOMAIN copies, o \in {"ok", "error_event", "throws"} : Finish(i, o)
  \/ clean
  \/ \E o \in {"ok", "err", "errPartial"} : cleanCallback(o)
  \/ Startup
  \/ UserLaunch

Spec == Init /\ [][Next]_vars

(***************************************************************************)
(* The specification of the retry loop: as Spec, but the host applies an   *)
(* update only as the README does, as the first call of a process that is  *)
(* neither updating nor cleaning, so that no applyUpdate ends a process    *)
(* whose completeUpdate is being retried.                                  *)
(***************************************************************************)
ReadmeApplyUpdate ==
  /\ calls = 0 /\ ~isUpdating /\ ~needsCleaning
  /\ \E o \in {"ok", "error_event", "throws"} : applyUpdate(UpdatePath, o)

LiveNext ==
  \/ ReadmeApplyUpdate
  \/ HostCompleteUpdate
  \/ clean
  \/ TimerFire
  \/ \E i \in DOMAIN copies : OpenWrite(i)
  \/ \E i \in DOMAIN copies : WriteChunk(i)
  \/ \E i \in DOMAIN copies : WriteError(i)
  \/ \E i \in DOMAIN copies : ReadError(i)
  \/ \E i \in DOMAIN copies, o \in {"ok", "error_event", "throws"} : Finish(i, o)
  \/ \E o \in {"ok", "err", "errPartial"} : cleanCallback(o)
  \/ Startup
  \/ UserLaunch

\* Timers fire, stream operations complete and a spawned process starts.
LiveSpec ==
  /\ Init /\ [][LiveNext]_vars
  /\ WF_vars(TimerFire)
  /\ WF_vars(\E i \in DOMAIN copies : OpenWrite(i))
  /\ WF_vars(\E i \in DOMAIN copies : WriteChunk(i))
  /\ WF_vars(\E i \in DOMAIN copies, o \in {"ok", "error_event", "throws"} :
               Finish(i, o))
  /\ WF_vars(Startup)

(***************************************************************************)
(* The lifecycle with a process that may die between two consecutive      *)
(* writes to the blob: in the finish handler between removeData(execPath)  *)
(* and storeData(mode CLEAN), in the self-target branch between the two    *)
(* removeData calls.                                                       *)
(***************************************************************************)
\* The process dies in the finish handler after removeData(DATA_EXECPATH).
FinishCrash(i) ==
  LET c == copies[i]
      src == files[running]
  IN /\ c.w = "open" /\ c.r = "ok"
     /\ src # Absent /\ c.pos = Len(src)
     /\ localStorage' = removeData(localStorage, DATA_EXECPATH)
     /\ Quit
     /\ ev' = Ev("crash", c.dst, "copyFinish")
     /\ UNCHANGED <<files, tmpDir, child, wfails>>
     /\ UNCHANGED <<dlVars, chkVars>>

\* The process dies in the self-target branch after removeData(DATA_MODE).
SelfTargetCrash ==
  /\ running # NoProc
  /\ calls < MaxCalls \/ timers > 0
  /\ ~Falsy(getData(localStorage, DATA_EXECPATH))
  /\ SelfTarget(getData(localStorage, DATA_EXECPATH), running)
  /\ localStorage' = removeData(localStorage, DATA_MODE)
  /\ Quit
  /\ ev' = Ev("crash", "", "selfTarget")
  /\ UNCHANGED <<files, tmpDir, child, wfails>>
  /\ UNCHANGED <<dlVars, chkVars>>

CrashNext ==
  \/ Next
  \/ \E i \in DOMAIN copies : FinishCrash(i)
  \/ SelfTargetCrash

CrashSpec == Init /\ [][CrashNext]_vars

(***************************************************************************)
(* The operations that do not belong to the lifecycle (isUpdating,         *)
(* needsCleaning, checkForUpdate, downloadUpdate), called in every phase   *)
(* the lifecycle leaves persisted.                                         *)
(***************************************************************************)
\* (A variant of isUpdating() that consumes the flag it reads.)
HostIsUpdating_ClearsMode ==
  /\ running # NoProc
  /\ ev' = Ev("isUpdating", "", IF isUpdating THEN "true" ELSE "false")
  /\ localStorage' = removeData(localStorage, DATA_MODE)
  /\ UNCHANGED <<files, tmpDir, running, child, copies, timers,
                 calls, wfails, cleanPromise>>
  /\ UNCHANGED <<dlVars, chkVars>>

\* isUpdating() and needsCleaning(), called by the host.
HostIsUpdating ==
  /\ running # NoProc
  /\ ev' = Ev("isUpdating", "", IF isUpdating THEN "true" ELSE "false")
  /\ UNCHANGED <<localStorage, files, tmpDir, running, child, copies, timers,
                 calls, wfails, cleanPromise>>
  /\ UNCHANGED <<dlVars, chkVars>>

HostNeedsCleaning ==
  /\ running # NoProc
  /\ ev' = Ev("needsCleaning", "", IF needsCleaning THEN "true" ELSE "false")
  /\ UNCHANGED <<localStorage, files, tmpDir, running, child, copies, timers,
                 calls, wfails, cleanPromise>>
  /\ UNCHANGED <<dlVars, chkVars>>

\* The persisted record, the process and the files in each phase: before any
\* update; after applyUpdate (the staged executable runs, or the installed
\* one after a failed launch); after completeUpdate; after clean.
Scenes ==
  LET scene(ls, run, app, upd, tmp) ==
        [ls |-> ls, run |-> run, app |-> app, upd |-> upd, tmp |-> tmp]
      updating == storeData(NoBlob,
                    << [key |-> DATA_MODE, value |-> MODE_UPDATE],
                       [key |-> DATA_EXECPATH, value |-> InstallPath] >>)
      cleaning == storeData(removeData(updating, DATA_EXECPATH),
                    << [key |-> DATA_MODE, value |-> MODE_CLEAN] >>)
  IN { scene(NoBlob, InstallPath, OldExe, Absent, FALSE),
       scene(updating, UpdatePath, OldExe, NewExe, TRUE),
       scene(updating, InstallPath, OldExe, NewExe, TRUE),
       scene(cleaning, InstallPath, NewExe, NewExe, TRUE),
       scene(removeData(cleaning, DATA_MODE), InstallPath, NewExe, Absent,
             FALSE) }

\* The replies to the manifest request, one of each kind.
FrameReplies ==
  { [error |-> FALSE, status |-> 200,
     body |-> JSONstringify([version |-> [major |-> 1, minor |-> 1,
                                          patch |-> 0, pre |-> <<>>],
                             update |-> "http://x/u.zip"])],
    [error |-> FALSE, status |-> 200, body |-> [text |-> "<html>"]],
    [error |-> FALSE, status |-> 404, body |-> [text |-> "<html>"]],
    [error |-> TRUE, status |-> 0, body |-> [text |-> ""]] }

FrameInit ==
  /\ \E s \in Scenes :
        /\ localStorage = s.ls
        /\ running = s.run
        /\ files = [p \in ExePaths |-> IF p = InstallPath THEN s.app ELSE s.upd]
        /\ tmpDir = s.tmp
  /\ child = NoProc
  /\ copies = <<>>
  /\ timers = 0
  /\ calls = 0
  /\ wfails = 0
  /\ cleanPromise = "none"
  /\ ev = Ev("init", "", "")
  /\ isDevMode \in BOOLEAN
  /\ DlIdle
  /\ currentVersion = [major |-> 1, minor |-> 0, patch |-> 0, pre |-> <<>>]
  /\ ChkIdle

FrameNext ==
  \/ HostIsUpdating
  \/ HostNeedsCleaning
  \/ checkForUpdate
  \/ \E reply \in FrameReplies : requestCallback(reply)
  \/ DlNext

FrameSpec == FrameInit /\ [][FrameNext]_vars

(***************************************************************************)
(* The README's startup protocol: a process that finds isUpdating() calls  *)
(* completeUpdate(), one that finds needsCleaning() calls clean(), and an   *)
(* update is applied in phase NONE once update.exe is staged.              *)
(***************************************************************************)
ProtoApplyUpdate ==
  /\ PhaseOf(localStorage) = "NONE"
  /\ cleanPromise = "none"
  /\ files[UpdatePath] = NewExe
  /\ \E o \in {"ok", "error_event", "throws"} : applyUpdate(UpdatePath, o)

ProtoCompleteUpdate ==
  /\ calls = 0
  /\ isUpdating
  /\ HostCompleteUpdate

ProtoClean ==
  /\ calls = 0
  /\ ~isUpdating /\ needsCleaning
  /\ clean

ProtoNext ==
  \/ ProtoApplyUpdate
  \/ ProtoCompleteUpdate
  \/ ProtoClean
  \/ TimerFire
  \/ \E i \in DOMAIN copies : OpenWrite(i)
  \/ \E i \in DOMAIN copies : WriteChunk(i)
  \/ \E i \in DOMAIN copies : WriteError(i)
  \/ \E i \in DOMAIN copies : ReadError(i)
  \/ \E i \in DOMAIN copies, o \in {"ok", "error_event", "throws"} : Finish(i, o)
  \/ \E o \in {"ok", "err", "errPartial"} : cleanCallback(o)
  \/ Startup
  \/ UserLaunch

\* The startup code runs; timers fire; stream operations and rimraf
\* complete; a spawned process starts.
ProtoSpec ==
  /\ Init /\ [][ProtoNext]_vars
  /\ WF_vars(ProtoCompleteUpdate)
  /\ WF_vars(ProtoClean)
  /\ WF_vars(TimerFire)
  /\ WF_vars(\E i \in DOMAIN copies : OpenWrite(i))
  /\ WF_vars(\E i \in DOMAIN copies : WriteChunk(i))
  /\ WF_vars(\E i \in DOMAIN copies, o \in {"ok", "error_event", "throws"} :
               Finish(i, o))
  /\ WF_vars(\E o \in {"ok", "err", "errPartial"} : cleanCallback(o))
  /\ WF_vars(Startup)

(***************************************************************************)
(* Claims.                                                                 *)
(***************************************************************************)
savedExecPath == getData(localStorage, DATA_EXECPATH)

\* C1: the process started after applyUpdate(path), path non-empty, sees
\* isUpdating() = true; the process started after a completeUpdate() whose
\* copy finished sees isUpdating() = false and needsCleaning() = true; when
\* clean() has finished both are false.
C1_LifecycleObservation ==
  /\ (ev.op = "start" /\ ev.res = "applyUpdate") => isUpdating
  /\ (ev.op = "start" /\ ev.res = "copyFinish") =>
        (~isUpdating /\ needsCleaning)
  /\ ev.op = "cleanCallback" => (~isUpdating /\ ~needsCleaning)

\* A whole lifecycle: clean() finished in the process running the new
\* executable from the install path.
C1_Witness ==
  /\ ev.op = "cleanCallback"
  /\ running = InstallPath
  /\ files[InstallPath] = NewExe

\* C3: a completeUpdate() call that finds the persisted execPath equal to the
\* running executable's path removes mode and execPath (phase NONE), opens no
\* stream, writes no file, and spawns and ends no process.
C3_SelfTargetGuard ==
  [][ (/\ running # NoProc
       /\ savedExecPath = running
       /\ ev'.op = "completeUpdate")
      => /\ getData(localStorage', DATA_MODE) = Undefined
         /\ getData(localStorage', DATA_EXECPATH) = Undefined
         /\ PhaseOf(localStorage') = "NONE"
         /\ UNCHANGED <<files, tmpDir, copies, running, child>> ]_vars

C3_Witness ==
  /\ ev.op = "completeUpdate" /\ ev.res = "selfTarget"
  /\ running # NoProc
  /\ localStorage = JSONstringify(EmptyObj)

\* C4: (a) when a copy finishes and the phase becomes CLEANING, the target
\* holds exactly the bytes of the running executable, also when a second
\* completeUpdate() call was made before the first overwrite succeeded;
\* (b) a call made when execPath is absent writes no file, changes no
\* persisted field and spawns no process.
C4_Idempotence ==
  [][ /\ ev'.op = "copyFinish" => files'[ev'.arg] = files[running]
      /\ (running # NoProc /\ Falsy(savedExecPath)
            /\ ev'.op = "completeUpdate")
         => UNCHANGED <<localStorage, files, copies, running, child>> ]_vars

C8_FailureKeepsPhase ==
  [][ (\/ ev'.op \in {"applyUpdate", "copyFinish"}
            /\ ev'.res \in {"error_event", "throws"}
       \/ ev'.op = "readError")
      => PhaseOf(localStorage') = PhaseOf(localStorage) ]_vars

\* C8 amended: a failed read leaves the persisted record unchanged; a failed
\* launch leaves the record that was written before the spawn: mode = UPDATE
\* with execPath = the caller's executable after applyUpdate, mode = CLEAN
\* without execPath after completeUpdate.
C8_FailureRecord ==
  [][ /\ ev'.op = "readError" => localStorage' = localStorage
      /\ (ev'.op = "applyUpdate" /\ ev'.res \in {"error_event", "throws"})
         => /\ getData(localStorage', DATA_MODE) = MODE_UPDATE
            /\ getData(localStorage', DATA_EXECPATH) = running
      /\ (ev'.op = "copyFinish" /\ ev'.res \in {"error_event", "throws"})
         => /\ getData(localStorage', DATA_MODE) = MODE_CLEAN
            /\ getData(localStorage', DATA_EXECPATH) = Undefined ]_vars

\* applyUpdate failed to launch the staged executable and the process quit.
C8_Witness ==
  /\ ev.op = "applyUpdate" /\ ev.res = "error_event"
  /\ running = NoProc /\ child = NoProc
  /\ isUpdating

\* C9: when clean()'s deletion fails the promise is rejected and the mode is
\* removed all the same; when it succeeds the promise is resolved, the mode
\* is removed and neither tmp nor update.exe exists.
C9_CleanEndsLifecycle ==
  ev.op = "cleanCallback" =>
    /\ getData(localStorage, DATA_MODE) \in {Undefined, Null}
    /\ PhaseOf(localStorage) = "NONE"
    /\ ev.arg # "ok" => ev.res = "rejected"
    /\ ev.arg = "ok" =>
          (ev.res = "resolved" /\ files[UpdatePath] = Absent /\ ~tmpDir)

\* A failed clean() in phase CLEANING.
C9_Witness ==
  /\ ev.op = "cleanCallback" /\ ev.arg = "errPartial" /\ ev.res = "rejected"
  /\ files[UpdatePath] # Absent
  /\ files[InstallPath] = NewExe

\* C2: when downloadUpdate resolves, update.exe holds the first RuntimeSize
\* bytes of the running executable followed by the payload, RuntimeSize +
\* PayloadLen bytes in all, however the payload was split into chunks.
C2_ByteExactMerge ==
  dlPromise.state = "resolved" =>
    /\ dlPromise.value = UpdatePath
    /\ files[UpdatePath] # Absent
    /\ Len(files[UpdatePath]) = RuntimeSize + PayloadLen
    /\ files[UpdatePath] = SubSeq(files[running], 1, RuntimeSize) \o Payload

\* C6: once request's callback has run the promise of checkForUpdate is
\* settled: rejected after a fetch error, a status other than 200 or a body
\* that is no manifest, resolved with {updateAvailable, updateInformation}
\* otherwise.
C6_AlwaysSettles ==
  chkPc = "done" =>
    IF \/ chkReply.error
       \/ chkReply.status # 200
       \/ ~Parseable(chkReply.body)
    THEN chkPromise.state = "rejected"
    ELSE chkPromise.state \in {"resolved", "rejected"}

\* The order of semantic versioning (semver.org, item 11), stated on its own:
\* the first of major, minor, patch that differs decides; with these equal a
\* pre-release precedes its release, and two pre-releases are decided by
\* their first differing identifier (numbers by value and before
\* non-numbers), a proper prefix preceding the longer one.
IdPrecedes(x, y) ==
  \/ x.num /\ y.num /\ x.v < y.v
  \/ x.num /\ ~y.num
  \/ ~x.num /\ ~y.num /\ x.v < y.v

SemverPrecedes(a, b) ==
  LET ma == <<a.major, a.minor, a.patch>>
      mb == <<b.major, b.minor, b.patch>>
  IN \/ \E i \in 1..3 : ma[i] < mb[i] /\ \A j \in 1..(i - 1) : ma[j] = mb[j]
     \/ /\ ma = mb
        /\ \/ a.pre # <<>> /\ b.pre = <<>>
           \/ /\ a.pre # <<>> /\ b.pre # <<>>
              /\ \/ \E i \in DOMAIN a.pre \cap DOMAIN b.pre :
                       /\ IdPrecedes(a.pre[i], b.pre[i])
                       /\ \A j \in 1..(i - 1) : a.pre[j] = b.pre[j]
                 \/ /\ Len(a.pre) < Len(b.pre)
                    /\ a.pre = SubSeq(b.pre, 1, Len(a.pre))

\* The version of the manifest the server sent.
SentManifest == JSONparse(chkReply.body)
SentVersionValid ==
  /\ ~chkReply.error /\ chkReply.status = 200 /\ Parseable(chkReply.body)
  /\ "version" \in DOMAIN SentManifest
  /\ ValidVersion(SentManifest.version)

\* C7: with a status-200 manifest carrying a version, checkForUpdate resolves
\* with updateAvailable = TRUE exactly when the current version precedes the
\* remote one in semantic-version order, and with updateInformation = the
\* manifest as sent.
C7_UpdateAvailable ==
  (chkPc = "done" /\ SentVersionValid) =>
    /\ chkPromise.state = "resolved"
    /\ chkPromise.value.updateAvailable
         = SemverPrecedes(currentVersion, SentManifest.version)
    /\ chkPromise.value.updateInformation = SentManifest

\* A pre-release is running and its release is on the server.
C7_Witness ==
  /\ chkPc = "done" /\ SentVersionValid
  /\ chkPromise.state = "resolved"
  /\ chkPromise.value.updateAvailable
  /\ currentVersion.pre # <<>>
  /\ SentManifest.version = [currentVersion EXCEPT !.pre = <<>>]

RECURSIVE SumTo(_, _)
SumTo(seq, k) == IF k = 0 THEN 0 ELSE SumTo(seq, k - 1) + seq[k]

\* The receivedSize notifications among the first i notifications.
ReceivedUpTo(i) == {j \in 1..i : notes[j].kind = "receivedSize"}
TotalNotes == {j \in DOMAIN notes : notes[j].kind = "totalSize"}

\* The download ended without an error: status 200 and 'end' was emitted.
DownloadComplete == dlPc \in {"merge", "finish"} /\ net.status = 200

ProgressOrder ==
  /\ \A i \in DOMAIN notes :
       notes[i].kind = "receivedSize" =>
         /\ \E j \in 1..(i - 1) : notes[j].kind = "totalSize"
         /\ notes[i].value.t = "number"
         /\ notes[i].value.n = SumTo(chunks, Cardinality(ReceivedUpTo(i)))
  /\ \A i, j \in DOMAIN notes :
       (i < j /\ notes[i].kind = "receivedSize"
              /\ notes[j].kind = "receivedSize")
         => notes[i].value.n <= notes[j].value.n

LastReceivedIsTotal ==
  /\ ReceivedUpTo(Len(notes)) # {}
  /\ TotalNotes # {}
  /\ LET last == notes[Len(notes)]
         total == notes[CHOOSE j \in TotalNotes : TRUE]
     IN /\ last.kind = "receivedSize"
        /\ ToNumber(total.value) = last.value

\* C10 as stated: {totalSize} comes before every {receivedSize}; each
\* receivedSize is the sum of the chunk lengths so far, so the values never
\* decrease; and after a download without error the last receivedSize equals
\* totalSize.
C10_ProgressTotal ==
  /\ ProgressOrder
  /\ DownloadComplete => LastReceivedIsTotal

\* C10 amended: the same, the last receivedSize being equal (as a number) to
\* totalSize when the response carried a Content-Length header.
C10_Progress ==
  /\ ProgressOrder
  /\ (DownloadComplete /\ net.hasLen) => LastReceivedIsTotal

\* A download in two chunks, with a Content-Length header, has ended.
C10_Witness ==
  /\ DownloadComplete /\ net.hasLen
  /\ Len(chunks) > 1
  /\ Len(notes) = Len(chunks) + 1

\* A launch failed: the spawn of applyUpdate or of completeUpdate's finish
\* handler threw or emitted 'error'.
LaunchFailed ==
  ev.op \in {"applyUpdate", "copyFinish"} /\ ev.res \in {"error_event", "throws"}

\* The update is installed: phase NONE, the application runs from the install
\* path, and the file there is the staged executable.
UpdateInstalled ==
  /\ PhaseOf(localStorage) = "NONE"
  /\ running = InstallPath
  /\ files[InstallPath] = NewExe

C12_DevModeNoAction ==
  /\ [][ (isDevMode /\ dlPc = "idle" /\ dlPc' # "idle")
         => /\ dlPc' = "aborted"
            /\ dlPromise'.state = "rejected"
            /\ UNCHANGED <<localStorage, files, tmpDir, tmpFiles, net, zipW,
                           notes, chunks, fin>> ]_vars
  /\ [][ (isDevMode /\ dlPc = "aborted")
         => UNCHANGED <<dlPc, dlPromise, localStorage, files, tmpDir,
                        tmpFiles, net, zipW, notes, chunks, fin>> ]_vars

\* downloadUpdate was called in development mode while an update was being
\* cleaned up.
C12_Witness ==
  /\ isDevMode /\ dlPc = "aborted"
  /\ dlPromise.state = "rejected"
  /\ needsCleaning
  /\ tmpFiles = NoTmp /\ notes = <<>>

\* A step that changes the persisted phase from one phase to another by the
\* operation or callback op (with outcome res when res is not "").
PhaseEdge(from, to, op, res) ==
  /\ PhaseOf(localStorage) = from /\ PhaseOf(localStorage') = to
  /\ ev'.op = op
  /\ res # "" => ev'.res = res

\* C13 as stated: the persisted phase changes only along NONE -> UPDATING
\* (applyUpdate), UPDATING -> CLEANING (completeUpdate's finished copy),
\* CLEANING -> NONE (clean) and UPDATING -> NONE (self-target abort).
C13_PhaseEdges ==
  [][ PhaseOf(localStorage') # PhaseOf(localStorage) =>
        \/ PhaseEdge("NONE", "UPDATING", "applyUpdate", "")
        \/ PhaseEdge("UPDATING", "CLEANING", "copyFinish", "")
        \/ PhaseEdge("CLEANING", "NONE", "cleanCallback", "")
        \/ PhaseEdge("UPDATING", "NONE", "completeUpdate", "selfTarget") ]_vars

\* C13 amended: no operation tests the phase it is called in, so besides the
\* four edges above applyUpdate also leads from CLEANING to UPDATING, clean
\* from UPDATING to NONE, and a copy that finishes after clean() removed the
\* mode from NONE to CLEANING; there is no other phase change.
C13_PhaseEdgesByOperation ==
  [][ PhaseOf(localStorage') # PhaseOf(localStorage) =>
        \/ PhaseEdge("NONE", "UPDATING", "applyUpdate", "")
        \/ PhaseEdge("CLEANING", "UPDATING", "applyUpdate", "")
        \/ PhaseEdge("UPDATING", "CLEANING", "copyFinish", "")
        \/ PhaseEdge("NONE", "CLEANING", "copyFinish", "")
        \/ PhaseEdge("CLEANING", "NONE", "cleanCallback", "")
        \/ PhaseEdge("UPDATING", "NONE", "cleanCallback", "")
        \/ PhaseEdge("UPDATING", "NONE", "completeUpdate", "selfTarget") ]_vars

\* The whole cycle was walked: clean() ended an update that was applied,
\* completed and relaunched.
C13_Witness ==
  /\ ev.op = "cleanCallback" /\ ev.arg = "ok"
  /\ PhaseOf(localStorage) = "NONE"
  /\ files[InstallPath] = NewExe /\ files[UpdatePath] = Absent

\* C14: in every persisted state the execPath field is present only if
\* mode = UPDATE, and it is only ever set by applyUpdate, to the path of the
\* executable running at that call.
C14_ExecPathOnlyWhileUpdating ==
  /\ [](~Falsy(savedExecPath) => getData(localStorage, DATA_MODE) = MODE_UPDATE)
  /\ [][ (savedExecPath' # savedExecPath /\ ~Falsy(savedExecPath'))
           => (ev'.op = "applyUpdate" /\ savedExecPath' = running) ]_vars

\* C15: when applyUpdate spawns the replacement the record already holds
\* mode = UPDATE and execPath = the path of the executable that made the
\* call; when completeUpdate's finish handler spawns it the record already
\* holds mode = CLEAN and no execPath; nothing is written between the spawn
\* and the start of the replacement, which therefore reads that record.
C15_WriteBeforeTerminate ==
  /\ [][ (ev'.op = "applyUpdate" /\ ev'.res \in {"ok", "error_event"})
         => /\ getData(localStorage', DATA_MODE) = MODE_UPDATE
            /\ getData(localStorage', DATA_EXECPATH) = running
            /\ running' = NoProc ]_vars
  /\ [][ (ev'.op = "copyFinish" /\ ev'.res \in {"ok", "error_event"})
         => /\ getData(localStorage', DATA_MODE) = MODE_CLEAN
            /\ getData(localStorage', DATA_EXECPATH) = Undefined
            /\ running' = NoProc ]_vars
  /\ [][ running = NoProc => localStorage' = localStorage ]_vars
  /\ [][ ev'.op = "start" =>
          /\ ev.op = "applyUpdate" =>
                (isUpdating /\ savedExecPath \in ExePaths)
          /\ ev.op = "copyFinish" =>
                (needsCleaning /\ savedExecPath = Undefined) ]_vars

\* The replacement spawned by completeUpdate has started from the install
\* path and finds mode = CLEAN and no execPath.
C15_Witness ==
  /\ ev.op = "start" /\ ev.res = "copyFinish"
  /\ running = InstallPath
  /\ needsCleaning /\ savedExecPath = Undefined

\* A step that writes the persisted blob.
BlobWritten == localStorage' # localStorage

\* While a spawned replacement has not started, the process that spawned it
\* is gone, and nothing is written while no process runs.
OneWriter ==
  /\ [](child # NoProc => running = NoProc)
  /\ [][ running = NoProc => ~BlobWritten ]_vars
  /\ [][ BlobWritten => running # NoProc ]_vars

UnlinkFailed == dlPc = "finish" /\ "unlink" \notin fin /\ tmpFiles.zip # Absent
RenameFailed == dlPc = "finish" /\ "rename" \notin fin /\ tmpFiles.runtime # Absent
StepFailed == dlPc = "failed" \/ net.status \notin {0, 200} \/ UnlinkFailed
                \/ RenameFailed

\* C17: the promise of downloadUpdate, once settled, never changes; when it
\* is resolved the temp directory was created, the response had status 200,
\* the merged file was renamed to update.exe and the delete of update.zip
\* did not fail; when a step has failed it is rejected with an error.
C17_SettlesOnce ==
  /\ [][ dlPromise.state \in {"resolved", "rejected"}
           => dlPromise' = dlPromise ]_vars
  /\ [](dlPromise.state = "resolved" =>
          /\ tmpDir /\ net.status = 200
          /\ files[UpdatePath] # Absent /\ tmpFiles.runtime = Absent
          /\ ~UnlinkFailed)
  /\ [](StepFailed => (dlPromise.state = "rejected" /\ dlPromise.value # ""))

\* C18: a step of isUpdating(), needsCleaning(), checkForUpdate() or
\* downloadUpdate() (the call or any of its callbacks, whatever its outcome)
\* leaves the persisted record, mode and execPath, as it is, in every phase.
C18_FrameRecord ==
  [][ (\/ ev'.op \in {"isUpdating", "needsCleaning"}
       \/ dlVars' # dlVars
       \/ chkVars' # chkVars
       \/ files' # files \/ tmpDir' # tmpDir)
      => /\ localStorage' = localStorage
         /\ getData(localStorage', DATA_MODE) = getData(localStorage, DATA_MODE)
         /\ getData(localStorage', DATA_EXECPATH) = savedExecPath ]_vars

\* In phase UPDATING, a check and a download have both resolved and
\* isUpdating() still answers true.
C18_Witness ==
  /\ ev.op = "isUpdating" /\ ev.res = "true"
  /\ chkPromise.state = "resolved"
  /\ dlPromise.state = "resolved"
  /\ isUpdating /\ savedExecPath = InstallPath

\* C19: after a status-200 download, when the merge's read of update.zip has
\* reached the end of the file it has read every byte of the payload, and
\* the read never finds update.zip missing: the download's 'end' does not
\* overtake the writes to update.zip.
C19_MergeOrdering ==
  net.status = 200 =>
    /\ dlPc = "finish" => mergePos = Len(Payload)
    /\ dlPc = "failed" => dlPromise.value # "zipStream"

\* C20: the steps of an unfinished copy (open, write, write error, read
\* error) and the call that starts it leave the record as it is; the finish
\* handler alone writes mode = CLEAN and clears execPath, and when it does
\* the file at the persisted path holds the bytes of the staged executable,
\* the one that is running.
C20_CleanOnlyAfterFullCopy ==
  /\ [][ (\/ ev'.op \in {"openWrite", "writeChunk", "writeError", "readError"}
          \/ ev'.op = "completeUpdate" /\ ev'.res = "copy")
         => localStorage' = localStorage ]_vars
  /\ [][ (getData(localStorage', DATA_MODE) = MODE_CLEAN /\ BlobWritten)
         => ev'.op = "copyFinish" ]_vars
  /\ [][ ev'.op = "copyFinish"
         => /\ getData(localStorage', DATA_MODE) = MODE_CLEAN
            /\ getData(localStorage', DATA_EXECPATH) = Undefined
            /\ files'[ev'.arg] = files[running] ]_vars

\* C21: in every persisted state, also one left by a process that died
\* between two writes to the blob, mode = UPDATE implies that execPath is
\* present, so that a completeUpdate() call made while isUpdating() answers
\* true never returns without doing anything.
C21_NoStuckUpdating ==
  /\ [](isUpdating => ~Falsy(savedExecPath))
  /\ [][ (isUpdating /\ ev'.op = "completeUpdate") => ev'.res # "return" ]_vars

====
